---------------------------- MODULE Spec2Model ----------------------------
(***************************************************************************)
(* Model of cuesubmit/Util.py, getCustomScriptParameters(script_path):     *)
(* the script path is split into a directory and a module identifier, the  *)
(* directory is appended to sys.path, the module is imported by            *)
(* identifier, the entry point opencue_render is looked up and its         *)
(* signature is walked to build the parameter schema.                      *)
(*                                                                         *)
(* Text (paths, module identifiers, str values) is a sequence of           *)
(* one-character strings, so that splitting a path is computed and not     *)
(* assumed.  Python values are records [t |-> type tag, v |-> payload].    *)
(***************************************************************************)
EXTENDS Integers, Sequences, FiniteSets, TLC

\* Number of calls of getCustomScriptParameters made by the process.
MaxCalls == 3

(***************************************************************************)
(* Python values                                                           *)
(***************************************************************************)
StrValue(chars) == [t |-> "str", v |-> chars]
IntValue(n) == [t |-> "int", v |-> n]
BoolValue(b) == [t |-> "bool", v |-> b]
TupleValue(items) == [t |-> "tuple", v |-> items]

\* inspect.Parameter.empty: the class inspect._empty, used as the marker of
\* "no default" (and, as an annotation, of "no annotation").
ParameterEmpty == [t |-> "type", v |-> "_empty"]

\* An instance of inspect._empty, which is what calling the marker class
\* with no arguments builds.
EmptyInstance == [t |-> "_empty", v |-> <<>>]

\* Annotations: the builtin classes str, int, bool and tuple, "_empty" when
\* the parameter has no annotation, and "literal" for an annotation written
\* as a string literal (a str object, which cannot be called).
Annotations == {"str", "int", "bool", "tuple", "_empty", "literal"}

\* Whether annotation() can be evaluated with no arguments.
ZeroArgCallable(annotation) == annotation # "literal"

\* annotation(): the value a class builds when called with no arguments.
CallAnnotation(annotation) ==
    CASE annotation = "str" -> StrValue(<<>>)
      [] annotation = "int" -> IntValue(0)
      [] annotation = "bool" -> BoolValue(FALSE)
      [] annotation = "tuple" -> TupleValue(<<>>)
      [] annotation = "_empty" -> EmptyInstance

\* Whether len(value) is defined (str and tuple are sized; int, bool and an
\* _empty instance are not).
HasLen(value) == value.t \in {"str", "tuple"}

\* len(value) of a sized value.
PyLen(value) == Len(value.v)

\* value[i] of a sized value, i counted from 0: a tuple of ints yields the
\* int, a str yields the one-character str.
PyGetItem(value, i) ==
    IF value.t = "tuple" THEN IntValue(value.v[i + 1])
    ELSE StrValue(<<value.v[i + 1]>>)

(***************************************************************************)
(* os.path.splitext, os.path.split and the path join of the file finder    *)
(***************************************************************************)
\* str.rfind as a 1-based position, 0 when the character does not occur.
RFind(s, c) ==
    IF \E i \in 1..Len(s) : s[i] = c
    THEN CHOOSE i \in 1..Len(s) : s[i] = c /\ \A j \in (i + 1)..Len(s) : s[j] # c
    ELSE 0

\* posixpath.splitext: <<root, ext>>.  The extension starts at the last dot
\* of the last component, unless that component has only leading dots.
SplitExt(p) ==
    LET sepIndex == RFind(p, "/")
        dotIndex == RFind(p, ".")
    IN IF /\ dotIndex > sepIndex
          /\ \E filenameIndex \in (sepIndex + 1)..(dotIndex - 1) : p[filenameIndex] # "."
       THEN <<SubSeq(p, 1, dotIndex - 1), SubSeq(p, dotIndex, Len(p))>>
       ELSE <<p, <<>>>>

\* str.rstrip("/").
RECURSIVE RStripSep(_)
RStripSep(s) ==
    IF s # <<>> /\ s[Len(s)] = "/" THEN RStripSep(SubSeq(s, 1, Len(s) - 1)) ELSE s

\* posixpath.split: <<head, tail>>, the head without its trailing slashes
\* unless it consists of slashes only.
Split(p) ==
    LET i == RFind(p, "/")
        head == SubSeq(p, 1, i)
        tail == SubSeq(p, i + 1, Len(p))
    IN IF head # <<>> /\ (\E k \in 1..Len(head) : head[k] # "/")
       THEN <<RStripSep(head), tail>>
       ELSE <<head, tail>>

\* os.path.split(os.path.splitext(script_path)[0])
ResolveIdentity(p) == Split(SplitExt(p)[1])

\* The source file the path finder looks for: <directory>/<module>.py
SourceFile(dir, name) ==
    IF dir # <<>> /\ dir[Len(dir)] = "/"
    THEN dir \o name \o <<".", "p", "y">>
    ELSE dir \o <<"/">> \o name \o <<".", "p", "y">>


(***************************************************************************)
(* The scripts on disk.  A script is what importing its file yields:       *)
(* whether its top-level code raises, whether it defines opencue_render    *)
(* ("function"), lacks it ("absent") or binds the name to something that   *)
(* is not callable ("noncallable"), and the declared parameters of the     *)
(* entry point, each with its annotation and its default.                  *)
(***************************************************************************)
Param(name, annotation, default) ==
    [name |-> name, annotation |-> annotation, default |-> default]

Script(faults, entry, params) ==
    [faults |-> faults, entry |-> entry, params |-> params]

\* opencue_render(a: str, b: int=5)
ScriptStrInt ==
    Script(FALSE, "function",
           <<Param("a", "str", ParameterEmpty), Param("b", "int", IntValue(5))>>)

\* opencue_render(c: bool, d: tuple=(0, 5, 3), e: tuple=(0, 5),
\*                q: tuple=(1, 2, 3, 4), halfRes: bool=0)
ScriptRange ==
    Script(FALSE, "function",
           <<Param("c", "bool", ParameterEmpty),
             Param("d", "tuple", TupleValue(<<0, 5, 3>>)),
             Param("e", "tuple", TupleValue(<<0, 5>>)),
             Param("q", "tuple", TupleValue(<<1, 2, 3, 4>>)),
             Param("halfRes", "bool", IntValue(0))>>)

\* A module without opencue_render.
ScriptNoEntry == Script(FALSE, "absent", <<>>)

\* opencue_render(t: tuple, u: int, s: tuple='xyz', h, w=7): h and w carry
\* no annotation.
ScriptUnannotated ==
    Script(FALSE, "function",
           <<Param("t", "tuple", ParameterEmpty),
             Param("u", "int", ParameterEmpty),
             Param("s", "tuple", StrValue(<<"x", "y", "z">>)),
             Param("h", "_empty", ParameterEmpty),
             Param("w", "_empty", IntValue(7))>>)

\* A module whose top-level code raises.
ScriptFaulting == Script(TRUE, "function", <<>>)

\* opencue_render(a: str, g: 'int'): g is annotated with a string literal.
ScriptLiteral ==
    Script(FALSE, "function",
           <<Param("a", "str", ParameterEmpty), Param("g", "literal", ParameterEmpty)>>)

\* opencue_render(startFrame: str='#', z: tuple=5)
ScriptUnsizedTuple ==
    Script(FALSE, "function",
           <<Param("startFrame", "str", StrValue(<<"#">>)),
             Param("z", "tuple", IntValue(5))>>)

\* opencue_render = 5
ScriptNotCallable == Script(FALSE, "noncallable", <<>>)

\* opencue_render()
ScriptNoParams == Script(FALSE, "function", <<>>)

PathA_r == <<"/", "a", "/", "r", ".", "p", "y">>
PathB_r == <<"/", "b", "/", "r", ".", "p", "y">>
PathA_n == <<"/", "a", "/", "n", ".", "p", "y">>
PathB_n == <<"/", "b", "/", "n", ".", "p", "y">>
PathA_f == <<"/", "a", "/", "f", ".", "p", "y">>
PathB_f == <<"/", "b", "/", "f", ".", "p", "y">>
PathC_k == <<"/", "c", ".", "d", "/", "k", ".", "p", "y">>
PathA_m == <<"/", "a", "/", "m", ".", "p", "y">>
PathB_m == <<"/", "b", "/", "m", ".", "p", "y">>
PathB_e == <<"/", "b", "/", "e", ".", "p", "y">>

\* The files that exist, by path.  PathB_m names no file.
FileSystem ==
    (PathA_r :> ScriptStrInt) @@ (PathB_r :> ScriptNoParams) @@
    (PathA_n :> ScriptNoEntry) @@ (PathB_n :> ScriptUnannotated) @@
    (PathA_f :> ScriptFaulting) @@ (PathB_f :> ScriptLiteral) @@
    (PathC_k :> ScriptUnsizedTuple) @@ (PathA_m :> ScriptNotCallable) @@
    (PathB_e :> ScriptRange)

\* The script_path arguments the callers pass.
ScriptPaths ==
    {PathA_r, PathB_r, PathA_n, PathB_n, PathA_f, PathB_f, PathC_k,
     PathA_m, PathB_m, PathB_e}

\* sys.path when the process starts: the installation's own directory,
\* which holds none of the scripts.
InitialSysPath == <<<<"/", "l">>>>

(***************************************************************************)
(* dict, as an insertion-ordered sequence of [key, val] items              *)
(***************************************************************************)
DictKeys(d) == {d[i].key : i \in DOMAIN d}

\* d[k]
DictGetItem(d, k) == d[CHOOSE i \in DOMAIN d : d[i].key = k].val

\* d[k] = v with a new key put first instead of last.
DictSetItemFirst(d, k, v) ==
    IF k \in DictKeys(d)
    THEN [i \in DOMAIN d |-> IF d[i].key = k THEN [key |-> k, val |-> v] ELSE d[i]]
    ELSE <<[key |-> k, val |-> v]>> \o d

\* d[k] = v: a new key goes last, an existing key keeps its position.
DictSetItem(d, k, v) ==
    IF k \in DictKeys(d)
    THEN [i \in DOMAIN d |-> IF d[i].key = k THEN [key |-> k, val |-> v] ELSE d[i]]
    ELSE Append(d, [key |-> k, val |-> v])

\* d.update(u) of two dicts with string keys, as records.
DictUpdate(d, u) ==
    [f \in DOMAIN d \cup DOMAIN u |-> IF f \in DOMAIN u THEN u[f] ELSE d[f]]

(***************************************************************************)
(* importlib.import_module                                                 *)
(***************************************************************************)
\* A module is identified with the source file it was executed from.
NoModule == <<>>

\* A finder in which the last directory of sys.path holding <name>.py decides.
FindSpecLast(name, path) ==
    LET hits == {i \in DOMAIN path : SourceFile(path[i], name) \in DOMAIN FileSystem}
    IN IF hits = {} THEN NoModule
       ELSE SourceFile(path[CHOOSE i \in hits : \A j \in hits : i >= j], name)

\* The path finder: the first directory of sys.path holding <name>.py
\* decides; NoModule when no directory holds it.
FindSpec(name, path) ==
    LET hits == {i \in DOMAIN path : SourceFile(path[i], name) \in DOMAIN FileSystem}
    IN IF hits = {} THEN NoModule
       ELSE SourceFile(path[CHOOSE i \in hits : \A j \in hits : i <= j], name)

(***************************************************************************)
(* The signature walk, per parameter                                       *)
(***************************************************************************)
\* The default taken as it is, the marker of "no default" included.
DefaultValueNoFallback(param) == param.default

\* Lines 98-100: the declared default, or annotation() when none is declared.
DefaultValue(param) ==
    IF param.default = ParameterEmpty
    THEN CallAnnotation(param.annotation)
    ELSE param.default

\* Lines 101-103: the descriptor recorded under the parameter's name.
NewDescriptor(param, default_value) ==
    [name |-> param.name, value |-> default_value, type |-> param.annotation]

\* The range convention applied to every tuple of three elements or more.
IsRangeAtLeast3(param, default_value) ==
    param.annotation = "tuple" /\ PyLen(default_value) >= 3

\* Line 104: the range convention applies.
IsRange(param, default_value) ==
    param.annotation = "tuple" /\ PyLen(default_value) = 3

\* Lines 105-107: the fields the range convention sets.
RangeFields(default_value) ==
    [min |-> PyGetItem(default_value, 0),
     max |-> PyGetItem(default_value, 1),
     value |-> PyGetItem(default_value, 2)]

\* The directory appended only when sys.path does not list it yet.
AppendDirOnce(path, dir) ==
    IF \E i \in DOMAIN path : path[i] = dir THEN path ELSE Append(path, dir)

\* Line 92: sys.path.append(_script_dir)
AppendDir(path, dir) == Append(path, dir)

\* The entry point taken to be there without looking.
HasEntryPointUnchecked(module) == TRUE

\* Line 94: 'opencue_render' in dir(_script_module)
HasEntryPoint(module) == FileSystem[module].entry # "absent"

(***************************************************************************)
(* State                                                                   *)
(***************************************************************************)
VARIABLES
    sysPath,        \* sys.path
    sysModules,     \* sys.modules: module identifier -> module
    pc,             \* position of the current call, "idle" between calls
    script_path,    \* the argument of the current (or last) call
    script_dir,     \* _script_dir
    script_file,    \* script_file, the module identifier
    script_module,  \* _script_module
    signature,      \* the parameters of inspect.signature(opencue_render)
    idx,            \* position of the for loop in signature
    parameters,     \* the dict being built
    ret,            \* what the last finished call handed its caller
    history         \* the finished calls, in order: [path, ret]

vars == <<sysPath, sysModules, pc, script_path, script_dir, script_file,
          script_module, signature, idx, parameters, ret, history>>

Init ==
    /\ sysPath = InitialSysPath
    /\ sysModules = [m \in {} |-> NoModule]
    /\ pc = "idle"
    /\ script_path = <<>>
    /\ script_dir = <<>>
    /\ script_file = <<>>
    /\ script_module = NoModule
    /\ signature = <<>>
    /\ idx = 1
    /\ parameters = <<>>
    /\ ret = [kind |-> "none"]
    /\ history = <<>>

\* An exception leaves the function: the caller gets the exception and
\* nothing else; the locals are left as they were when it was raised.
Raised(type, at, names) ==
    [kind |-> "raise", error |-> [type |-> type, at |-> at, names |-> names]]

\* Line 109: return script_file, parameters
Returned(module_name, schema) ==
    [kind |-> "return", value |-> <<module_name, schema>>]

Finish(outcome) ==
    /\ pc' = "idle"
    /\ ret' = outcome
    /\ history' = Append(history, [path |-> script_path, ret |-> outcome])

\* Lines 90-92: parameters = {}, the path is split, the directory appended.
Call(p) ==
    /\ pc = "idle"
    /\ Len(history) < MaxCalls
    /\ script_path' = p
    /\ parameters' = <<>>
    /\ script_dir' = ResolveIdentity(p)[1]
    /\ script_file' = ResolveIdentity(p)[2]
    /\ sysPath' = AppendDir(sysPath, ResolveIdentity(p)[1])
    /\ script_module' = NoModule
    /\ signature' = <<>>
    /\ idx' = 1
    /\ pc' = "import"
    /\ UNCHANGED <<sysModules, ret, history>>

\* Line 93: importlib.import_module(script_file).  A module already in
\* sys.modules is returned as it is; otherwise the finder picks the source
\* file, the module is executed and, unless it raises, entered in
\* sys.modules.
ImportModule ==
    /\ pc = "import"
    /\ IF script_file \in DOMAIN sysModules
       THEN /\ script_module' = sysModules[script_file]
            /\ pc' = "verify"
            /\ UNCHANGED <<sysModules, ret, history>>
       ELSE LET file == FindSpec(script_file, sysPath)
            IN IF file = NoModule
               THEN /\ Finish(Raised("ModuleNotFoundError", "import", <<script_file>>))
                    /\ UNCHANGED <<sysModules, script_module>>
               ELSE IF FileSystem[file].faults
               THEN /\ Finish(Raised("Exception", "import", <<>>))
                    /\ UNCHANGED <<sysModules, script_module>>
               ELSE /\ sysModules' = sysModules @@ (script_file :> file)
                    /\ script_module' = file
                    /\ pc' = "verify"
                    /\ UNCHANGED <<ret, history>>
    /\ UNCHANGED <<sysPath, script_path, script_dir, script_file, signature,
                   idx, parameters>>

\* Lines 94-95: the NameError names script_file and _script_dir.
VerifyEntryPoint ==
    /\ pc = "verify"
    /\ IF HasEntryPoint(script_module)
       THEN pc' = "signature" /\ UNCHANGED <<ret, history>>
       ELSE Finish(Raised("NameError", "verify", <<script_file, script_dir>>))
    /\ UNCHANGED <<sysPath, sysModules, script_path, script_dir, script_file,
                   script_module, signature, idx, parameters>>

\* Line 96: inspect.signature raises TypeError for an object that is not
\* callable.
GetSignature ==
    /\ pc = "signature"
    /\ IF FileSystem[script_module].entry = "function"
       THEN /\ signature' = FileSystem[script_module].params
            /\ idx' = 1
            /\ pc' = "walk"
            /\ UNCHANGED <<ret, history>>
       ELSE /\ Finish(Raised("TypeError", "signature", <<>>))
            /\ UNCHANGED <<signature, idx>>
    /\ UNCHANGED <<sysPath, sysModules, script_path, script_dir, script_file,
                   script_module, parameters>>

\* Lines 97-107, one iteration of the loop.  annotation() raises TypeError
\* for an annotation that cannot be called, before anything is recorded;
\* len(default_value) raises TypeError for a value without a length, after
\* the descriptor was recorded.
WalkParameter ==
    /\ pc = "walk"
    /\ idx <= Len(signature)
    /\ LET param == signature[idx]
       IN IF param.default = ParameterEmpty /\ ~ZeroArgCallable(param.annotation)
          THEN /\ Finish(Raised("TypeError", "annotation", <<>>))
               /\ UNCHANGED <<parameters, idx>>
          ELSE LET default_value == DefaultValue(param)
                   recorded == DictSetItem(parameters, param.name,
                                           NewDescriptor(param, default_value))
               IN IF param.annotation = "tuple" /\ ~HasLen(default_value)
                  THEN /\ parameters' = recorded
                       /\ Finish(Raised("TypeError", "len", <<>>))
                       /\ UNCHANGED idx
                  ELSE /\ parameters' =
                            IF IsRange(param, default_value)
                            THEN DictSetItem(recorded, param.name,
                                     DictUpdate(DictGetItem(recorded, param.name),
                                                RangeFields(default_value)))
                            ELSE recorded
                       /\ idx' = idx + 1
                       /\ UNCHANGED <<pc, ret, history>>
    /\ UNCHANGED <<sysPath, sysModules, script_path, script_dir, script_file,
                   script_module, signature>>

\* The return statement indented into the loop body: the function returns
\* after the first parameter.
ReturnInsideLoop ==
    /\ pc = "walk"
    /\ idx > 1 \/ idx > Len(signature)
    /\ Finish(Returned(script_file, parameters))
    /\ UNCHANGED <<sysPath, sysModules, script_path, script_dir, script_file,
                   script_module, signature, idx, parameters>>

\* Line 109, reached when the loop is exhausted.
Return ==
    /\ pc = "walk"
    /\ idx > Len(signature)
    /\ Finish(Returned(script_file, parameters))
    /\ UNCHANGED <<sysPath, sysModules, script_path, script_dir, script_file,
                   script_module, signature, idx, parameters>>

Next ==
    \/ \E p \in ScriptPaths : Call(p)
    \/ ImportModule
    \/ VerifyEntryPoint
    \/ GetSignature
    \/ WalkParameter
    \/ Return

Spec == Init /\ [][Next]_vars

(***************************************************************************)
(* Properties                                                              *)
(***************************************************************************)
\* A call has finished and handed its caller a (module identifier, schema)
\* pair; the locals are those of that call.
Done == pc = "idle" /\ ret.kind = "return"

\* The schema handed to the caller.
Schema == ret.value[2]

\* The declared parameters of the entry point of the module that was loaded.
Declared == FileSystem[script_module].params

\* C1: a returned schema has exactly one descriptor per declared parameter
\* of the loaded opencue_render, in declaration order, and each descriptor's
\* 'name' is the key it is stored under.
C1_OneDescriptorPerParameter ==
    Done =>
        /\ Len(Schema) = Len(Declared)
        /\ \A i \in DOMAIN Schema :
              /\ Schema[i].key = Declared[i].name
              /\ Schema[i].val.name = Schema[i].key

\* A schema of several parameters was returned.
C1_Witness == Done /\ Len(Schema) >= 4

\* C2: in a returned schema 'type' is the declared annotation; for a
\* parameter not annotated tuple 'value' is the declared default when there
\* is one, and otherwise the zero value of the annotation: str gives the
\* empty string, int gives 0, bool gives False.  For a parameter annotated
\* tuple the candidate (the declared default, or the empty tuple) is what
\* 'value', or 'min', 'max' and 'value' together, are taken from.
C2_CandidateValue ==
    Done =>
        \A i \in DOMAIN Declared :
            LET param == Declared[i]
                d == Schema[i].val
                declared == param.default # ParameterEmpty
            IN /\ d.type = param.annotation
               /\ (param.annotation # "tuple" /\ declared) => d.value = param.default
               /\ (param.annotation = "str" /\ ~declared) => d.value = StrValue(<<>>)
               /\ (param.annotation = "int" /\ ~declared) => d.value = IntValue(0)
               /\ (param.annotation = "bool" /\ ~declared) => d.value = BoolValue(FALSE)
               /\ (param.annotation = "tuple" /\ "min" \notin DOMAIN d) =>
                     d.value = IF declared THEN param.default ELSE TupleValue(<<>>)
               /\ (param.annotation = "tuple" /\ "min" \in DOMAIN d) =>
                     /\ declared
                     /\ <<d.min.v, d.max.v, d.value.v>> =
                            IF param.default.t = "tuple"
                            THEN param.default.v
                            ELSE <<<<param.default.v[1]>>, <<param.default.v[2]>>,
                                   <<param.default.v[3]>>>>

\* A schema was returned that holds a declared default, a value built from
\* str and a value built from bool or int.
C2_Witness ==
    /\ Done
    /\ \E i \in DOMAIN Declared :
          Declared[i].default # ParameterEmpty /\ Declared[i].annotation = "int"
    /\ \E i \in DOMAIN Declared :
          Declared[i].default = ParameterEmpty /\ Declared[i].annotation = "str"
    /\ \E k \in DOMAIN history :
          /\ history[k].ret.kind = "return"
          /\ \E i \in DOMAIN history[k].ret.value[2] :
                /\ history[k].ret.value[2][i].val.type = "bool"
                /\ history[k].ret.value[2][i].val.value = BoolValue(FALSE)

\* The candidate of a parameter annotated tuple: its declared default, or
\* the empty tuple.
TupleCandidate(param) ==
    IF param.default = ParameterEmpty THEN TupleValue(<<>>) ELSE param.default

\* C3: in a returned schema a descriptor has 'min' and 'max' exactly when
\* the annotation is tuple and the candidate has three elements; then min,
\* max and value are its elements 0, 1 and 2.  'min' and 'max' come together
\* or not at all, and a tuple-annotated parameter whose candidate has any
\* other length keeps the raw candidate as 'value'.
C3_RangeConvention ==
    Done =>
        \A i \in DOMAIN Declared :
            LET param == Declared[i]
                d == Schema[i].val
                cand == TupleCandidate(param)
                three == param.annotation = "tuple" /\ HasLen(cand) /\ Len(cand.v) = 3
            IN /\ ("min" \in DOMAIN d) <=> ("max" \in DOMAIN d)
               /\ ("min" \in DOMAIN d) <=> three
               /\ DOMAIN d \subseteq {"name", "value", "type", "min", "max"}
               /\ three =>
                     /\ d.min = PyGetItem(cand, 0)
                     /\ d.max = PyGetItem(cand, 1)
                     /\ d.value = PyGetItem(cand, 2)
               /\ (param.annotation = "tuple" /\ ~three) => d.value = cand

\* A schema was returned with the range (0, 5, 3) enriched next to tuples
\* of two and of four elements that are not.
C3_Witness ==
    /\ Done
    /\ \E i \in DOMAIN Schema :
          /\ "min" \in DOMAIN Schema[i].val
          /\ Schema[i].val.min = IntValue(0)
          /\ Schema[i].val.max = IntValue(5)
          /\ Schema[i].val.value = IntValue(3)
    /\ \E i \in DOMAIN Schema : Schema[i].val.value = TupleValue(<<0, 5>>)
    /\ \E i \in DOMAIN Schema : Schema[i].val.value = TupleValue(<<1, 2, 3, 4>>)

\* The last call ended with the NameError of the entry point check.
ContractError == pc = "idle" /\ ret.kind = "raise" /\ ret.error.type = "NameError"

IterationFails(param) ==
    \/ param.default = ParameterEmpty /\ param.annotation = "literal"
    \/ /\ param.annotation = "tuple"
       /\ param.default # ParameterEmpty
       /\ param.default.t \notin {"str", "tuple"}

\* C5: the steps run in the order resolve, load, verify, signature, walk; a
\* call hands over a (module identifier, schema) pair only after the module
\* was loaded, the entry point found and every parameter processed, and the
\* pair holds the complete schema; a call that fails hands over the error
\* and no schema, whatever was recorded before the failure.
C5_AllOrNothing ==
    /\ [](pc = "idle" /\ ret.kind # "none" =>
            /\ ret.kind \in {"return", "raise"}
            /\ ret.kind = "return" =>
                  /\ script_module # NoModule
                  /\ FileSystem[script_module].entry = "function"
                  /\ signature = Declared
                  /\ idx = Len(Declared) + 1
                  /\ \A i \in DOMAIN Declared : ~IterationFails(Declared[i])
                  /\ ret.value = <<script_file, parameters>>
                  /\ Len(parameters) = Len(Declared)
            /\ ret.kind = "raise" =>
                  /\ DOMAIN ret = {"kind", "error"}
                  /\ \/ script_module = NoModule
                     \/ FileSystem[script_module].entry # "function"
                     \/ idx <= Len(signature) /\ IterationFails(signature[idx]))
    /\ [][pc' # pc =>
            <<pc, pc'>> \in {<<"idle", "import">>, <<"import", "verify">>,
                             <<"verify", "signature">>, <<"signature", "walk">>,
                             <<"import", "idle">>, <<"verify", "idle">>,
                             <<"signature", "idle">>, <<"walk", "idle">>}]_vars

\* A call failed at its second parameter, after one descriptor was recorded,
\* and the caller got the error.
C5_Witness ==
    /\ pc = "idle"
    /\ ret.kind = "raise"
    /\ ret.error.at = "annotation"
    /\ idx = 2
    /\ Len(parameters) = 1

\* C6: a parameter without default whose annotation cannot be called with
\* no arguments, or is missing, makes the call fail: no schema is returned
\* for a signature with such a parameter.
C6_ConstructionError ==
    Done =>
        \A i \in DOMAIN Declared :
            Declared[i].default = ParameterEmpty =>
                Declared[i].annotation \notin {"literal", "_empty"}

C8_ConcreteValue ==
    Done =>
        \A i \in DOMAIN Schema :
            /\ {"name", "type", "value"} \subseteq DOMAIN Schema[i].val
            /\ Schema[i].val.value \notin {ParameterEmpty, EmptyInstance}

\* The directory holding the file a path names: the d with path = d/f, f
\* free of separators.
ContainingDir(p) ==
    CHOOSE d \in {SubSeq(p, 1, n) : n \in 0..Len(p)} :
        \E f \in {SubSeq(p, n, Len(p)) : n \in 1..(Len(p) + 1)} :
            /\ p = d \o <<"/">> \o f
            /\ \A k \in DOMAIN f : f[k] # "/"

\* C9: sys.path is the initial path followed by the directory of every
\* call made so far, in call order, once per call, whether the call
\* returned, failed or is still running.
C9_AppendOnly ==
    sysPath = InitialSysPath
                \o [i \in DOMAIN history |-> ContainingDir(history[i].path)]
                \o (IF pc = "idle" THEN <<>> ELSE <<ContainingDir(script_path)>>)

\* Three calls were made, one of which failed and two of which named the
\* same directory.
C9_Witness ==
    /\ Len(history) = 3
    /\ \E i \in DOMAIN history : history[i].ret.kind = "raise"
    /\ \E i \in DOMAIN history : history[i].ret.kind = "return"
    /\ \E i, j \in DOMAIN history :
          i < j /\ ContainingDir(history[i].path) = ContainingDir(history[j].path)

\* C10: a call that returns for a script path naming a file describes the
\* opencue_render of that file.
C10_DescribesScriptAtPath ==
    (Done /\ script_path \in DOMAIN FileSystem) =>
        /\ script_module = script_path
        /\ [i \in DOMAIN Schema |-> Schema[i].key] =
               [i \in DOMAIN FileSystem[script_path].params |->
                   FileSystem[script_path].params[i].name]

=============================================================================
